---------------------------- MODULE Spec2Model ----------------------------
(***************************************************************************)
(* Community blog backend: the document store (posts, connections) and the *)
(* route handlers that read and write it.                                  *)
(*                                                                         *)
(* Time is counted in ticks of 12 hours (DayTicks ticks are 24 hours).     *)
(* createdAt has millisecond resolution in the program; in the model every *)
(* post is created at an instant of its own (CreatePost advances the       *)
(* clock), so two posts never share a createdAt.                           *)
(*                                                                         *)
(* A handler is one action: it reads the store, and writes its response    *)
(* to resp, where it stays until the client takes it (Receive).  Handlers  *)
(* run when no response is waiting, so a response in resp was computed     *)
(* from the store of the same state.                                       *)
(***************************************************************************)
EXTENDS Integers, Sequences, FiniteSets, TLC

\* ------------------------------------------------------------------ bounds

\* posts ever created in one behaviour
MaxPosts == 3
\* ticks the clock advances one by one after a whole number of weeks
MaxTime == 4
\* whole weeks that pass
MaxWeeks == 1
\* comments on one post
MaxComments == 1
\* connection requests between their check and their save at one time
MaxInflight == 2
\* Connection documents that exist or are held by a call at one time
MaxConnections == 3
\* accept and decline calls between their load and their save at one time
MaxAnswering == 2
\* like calls between their load and their save at one time
MaxLiking == 2
\* feed calls between their first query and their response at one time
MaxReading == 2
\* refresh tokens signed in one behaviour
MaxTokens == 3
\* refresh and logout calls between their load and their save at one time
MaxRefreshing == 2

\* ------------------------------------------------------- program constants

\* 24 * 60 * 60 * 1000 ms, in ticks
DayTicks == 2
\* 7 * 24 * 60 * 60 * 1000 ms, in ticks
WeekTicks == 7 * DayTicks
\* default page size: parseInt(req.query.limit) || 10
DefaultLimit == 10
\* Math.min(..., 50)
LimitCap == 50

Users == {"alice", "bob", "carol"}
\* the caller of a route without requireAuth
Anonymous == "anonymous"

VARIABLES
    posts,        \* the Post collection: a set of documents
    nextId,       \* the next post _id
    now,          \* Date.now(), in ticks
    connections,  \* the Connection collection: a set of documents
    inflight,     \* POST /request calls that passed findOne and have not saved yet
    answering,    \* accept and decline calls that loaded their record and have not saved yet
    liking,       \* like calls that loaded their post and have not saved yet
    reading,      \* feed calls that ran their first query and have not answered yet
    refreshTokens,\* User.refreshTokens: the array of tokens of every user
    refreshing,   \* refresh and logout calls that loaded their user and have not saved yet
    issued,       \* the number of refresh tokens generateTokens has signed
    resp          \* the response of the handler that ran last

\* the state the auth routes work on
authVars == <<refreshTokens, refreshing, issued>>

vars == <<posts, nextId, now, connections, inflight, answering, liking, reading, authVars, resp>>

\* ----------------------------------------------------------------- helpers

Min(a, b) == IF a < b THEN a ELSE b

\* Math.ceil(a / b) for a >= 0, b > 0
Ceil(a, b) == (a + b - 1) \div b

\* parseInt(req.query.page) || 1 ; 0 stands for an absent or unparsable parameter
PageOf(rawPage) == IF rawPage = 0 THEN 1 ELSE rawPage

\* parseInt(req.query.limit) || 10
LimitOf(rawLimit) == IF rawLimit = 0 THEN DefaultLimit ELSE rawLimit

\* Math.min(parseInt(req.query.limit) || 10, 50)
CappedLimitOf(rawLimit) == Min(LimitOf(rawLimit), LimitCap)

\* .skip(skip).limit(limit) of a cursor, Array.prototype.slice(skip, skip + limit)
Slice(s, skip, limit) ==
    IF skip >= Len(s) THEN <<>> ELSE SubSeq(s, skip + 1, Min(skip + limit, Len(s)))

\* .sort(...): the orders of the documents of S by descending key k[d]; documents
\* with equal keys come in any order
RECURSIVE SortDesc(_, _)
SortDesc(S, k) ==
    IF S = {} THEN {<<>>}
    ELSE LET top == {x \in S : \A y \in S : k[x] >= k[y]}
         IN  UNION {{<<x>> \o r : r \in SortDesc(S \ {x}, k)} : x \in top}

\* { isPublished: true }
PublishedMutantAll == posts
Published == {p \in posts : p.isPublished}

\* { createdAt: -1 }
ByCreatedDesc(S) == SortDesc(S, [p \in S |-> p.createdAt])

\* { createdAt: 1 }
ByCreatedAsc(S) == SortDesc(S, [p \in S |-> 0 - p.createdAt])

\* ObjectId.prototype.equals
EqualsMutantNever(a, b) == FALSE
Equals(a, b) == a = b

NoResp == [handler |-> "none"]

\* no response is waiting for its client
Idle == resp = NoResp


\* a response that carries no page of posts
Plain(h, st) == [handler |-> h, status |-> st]

\* ------------------------------------------------------- the Post collection

\* tag.toLowerCase().trim()
NormalizeTag(t) ==
    CASE t = "JS " -> "js"
      [] t = "Tla" -> "tla"
      [] OTHER -> t

NormalizeTags(ts) == [i \in 1..Len(ts) |-> NormalizeTag(ts[i])]

\* Post.findById(id): the set holding the document, empty when there is none
FindPost(id) == {p \in posts : p.id = id}

\* a save that changes an array of the post `id` increments the post's __v: the
\* suspended like calls of S that loaded this post now hold an older version
Outdated(S, id) == {[l EXCEPT !.stale = (l.stale \/ l.id = id)] : l \in S}

\* POST /api/posts : new Post({content, author, tags, isPublished}).save()
CreatePost(u, tags, isPublished) ==
    /\ Idle
    /\ nextId <= MaxPosts
    /\ now % WeekTicks < MaxTime
    /\ posts' = posts \cup {[id |-> nextId, author |-> u, createdAt |-> now,
                             isPublished |-> isPublished, likes |-> <<>>,
                             comments |-> <<>>, tags |-> NormalizeTags(tags)]}
    /\ nextId' = nextId + 1
    /\ now' = now + 1
    /\ resp' = Plain("createPost", 201)
    /\ UNCHANGED <<connections, inflight, answering, liking, reading, authVars>>

\* the response of an update or a delete of the post `id` asked for by u
Edited(h, st, u, id) == [handler |-> h, status |-> st, user |-> u, id |-> id]

IsAuthorMutantAnyone(post, u) == TRUE

\* post.author.equals(req.user._id)
IsAuthor(post, u) == post.author = u

\* PUT /api/posts/:id with a body that passes validatePost; isPublished is <<>> when the body has none, else <<value>>
UpdatePost(u, id, tags, isPublished) ==
    /\ Idle
    /\ LET found == FindPost(id) IN
       IF found = {}
       THEN /\ resp' = Edited("updatePost", 404, u, id)
            /\ UNCHANGED <<posts, liking>>
       ELSE LET post == CHOOSE p \in found : TRUE IN
            IF ~IsAuthor(post, u)
            THEN /\ resp' = Edited("updatePost", 403, u, id)
                 /\ UNCHANGED <<posts, liking>>
            ELSE /\ posts' = (posts \ {post}) \cup
                        {[post EXCEPT !.tags = NormalizeTags(tags),
                                      !.isPublished = IF isPublished = <<>>
                                                      THEN post.isPublished
                                                      ELSE isPublished[1]]}
                 /\ liking' = IF NormalizeTags(tags) # post.tags
                               THEN Outdated(liking, id) ELSE liking
                 /\ resp' = Edited("updatePost", 200, u, id)
    /\ UNCHANGED <<nextId, now, connections, inflight, answering, reading, authVars>>

\* DELETE /api/posts/:id
DeletePost(u, id) ==
    /\ Idle
    /\ LET found == FindPost(id) IN
       IF found = {}
       THEN /\ resp' = Edited("deletePost", 404, u, id)
            /\ UNCHANGED posts
       ELSE LET post == CHOOSE p \in found : TRUE IN
            IF ~IsAuthor(post, u)
            THEN /\ resp' = Edited("deletePost", 403, u, id)
                 /\ UNCHANGED posts
            ELSE /\ posts' = posts \ {post}
                 /\ resp' = Edited("deletePost", 200, u, id)
    /\ UNCHANGED <<nextId, now, connections, inflight, answering, liking, reading, authVars>>

\* post.likes.find(like => like.user.equals(req.user._id)) finds a like
HasLike(likes, u) == \E i \in 1..Len(likes) : Equals(likes[i], u)

\* post.likes.filter(like => !like.user.equals(req.user._id))
WithoutLike(likes, u) == SelectSeq(likes, LAMBDA x : ~Equals(x, u))

\* the number of a call that is suspended at its save
LikeCalls == 1..MaxLiking

\* the response of POST /api/posts/:id/like for the suspended call l
Liked(l, st) ==
    IF st = 200
    THEN [handler |-> "like", status |-> 200, user |-> l.user, post |-> l.id,
          liked |-> l.liked, likesCount |-> Len(l.likes)]
    ELSE [handler |-> "like", status |-> st, user |-> l.user, post |-> l.id]

\* POST /api/posts/:id/like up to `await post.save()`: findById, then the caller's
\* like is pushed to or filtered out of the array of the loaded copy
ToggleLike(u, id) ==
    /\ Idle
    /\ LET found == FindPost(id) IN
       IF found = {}
       THEN /\ resp' = Plain("like", 404)
            /\ UNCHANGED liking
       ELSE LET post == CHOOSE p \in found : TRUE
                existingLike == HasLike(post.likes, u)
            IN  /\ Cardinality(liking) < MaxLiking
                /\ liking' = liking \cup
                      {[call  |-> CHOOSE k \in LikeCalls :
                                     /\ \A l \in liking : l.call # k
                                     /\ \A j \in LikeCalls :
                                           (\A l \in liking : l.call # j) => k <= j,
                        user  |-> u, id |-> id,
                        liked |-> ~existingLike,
                        likes |-> IF existingLike THEN WithoutLike(post.likes, u)
                                                  ELSE Append(post.likes, u),
                        stale |-> FALSE]}
                /\ resp' = NoResp
    /\ UNCHANGED <<posts, nextId, now, connections, inflight, answering, reading, authVars>>

\* POST /api/posts/:id/like from `await post.save()` on.  After push the save sends
\* { $push: { likes }, $inc: { __v } } and matches on _id alone; after the
\* assignment of the filtered array it sends { $set: { likes }, $inc: { __v } } and
\* matches on the loaded __v as well (the version key of a schema that does not turn
\* it off), so that the save of an outdated copy throws a VersionError.  likesCount
\* is the length of the array of the loaded copy.  When the document is gone the
\* save either throws or passes unnoticed, depending on the Mongoose version.
LikeSave(l) ==
    /\ Idle
    /\ l \in liking
    /\ LET found == FindPost(l.id)
           rest  == liking \ {l}
       IN  IF found = {}
           THEN /\ \E st \in {200, 500} : resp' = Liked(l, st)
                /\ liking' = rest
                /\ UNCHANGED posts
           ELSE LET post == CHOOSE p \in found : TRUE IN
                IF l.liked
                THEN /\ posts' = (posts \ {post}) \cup
                            {[post EXCEPT !.likes = Append(post.likes, l.user)]}
                     /\ liking' = Outdated(rest, l.id)
                     /\ resp' = Liked(l, 200)
                ELSE IF l.stale
                THEN /\ resp' = Liked(l, 500)
                     /\ liking' = rest
                     /\ UNCHANGED posts
                ELSE /\ posts' = (posts \ {post}) \cup {[post EXCEPT !.likes = l.likes]}
                     /\ liking' = Outdated(rest, l.id)
                     /\ resp' = Liked(l, 200)
    /\ UNCHANGED <<nextId, now, connections, inflight, answering, reading, authVars>>

\* POST /api/posts/:id/comment
AddComment(u, id) ==
    /\ Idle
    /\ LET found == FindPost(id) IN
       IF found = {}
       THEN /\ resp' = Plain("comment", 404)
            /\ UNCHANGED <<posts, liking>>
       ELSE LET post == CHOOSE p \in found : TRUE IN
            /\ Len(post.comments) < MaxComments
            /\ posts' = (posts \ {post}) \cup
                            {[post EXCEPT !.comments = Append(post.comments, u)]}
            /\ liking' = Outdated(liking, id)
            /\ resp' = Plain("comment", 201)
    /\ UNCHANGED <<nextId, now, connections, inflight, answering, reading, authVars>>

\* time passes
Tick ==
    /\ Idle
    /\ now % WeekTicks < MaxTime
    /\ now' = now + 1
    /\ resp' = NoResp
    /\ UNCHANGED <<posts, nextId, connections, inflight, answering, liking, reading, authVars>>

\* a week passes
Week ==
    /\ Idle
    /\ now \div WeekTicks < MaxWeeks
    /\ now' = now + WeekTicks
    /\ resp' = NoResp
    /\ UNCHANGED <<posts, nextId, connections, inflight, answering, liking, reading, authVars>>

\* ------------------------------------------------- the Connection collection

\* { $or: [{requester: a, recipient: b}, {requester: b, recipient: a}] }
Between(a, b) ==
    {c \in connections : \/ (c.requester = a /\ c.recipient = b)
                         \/ (c.requester = b /\ c.recipient = a)}

\* connectionSchema.index({ requester: 1, recipient: 1 }, { unique: true })
DuplicateKey(a, b) == \E c \in connections : c.requester = a /\ c.recipient = b

\* connectionSchema.pre('save'): this.requester.equals(this.recipient)
PreSaveRejects(a, b) == Equals(a, b)

\* the response of POST /api/connections/request, with the two parties of the call
Requested(st, u, target) ==
    [handler |-> "request", status |-> st, requester |-> u, recipient |-> target]

\* the _id of a new document: one that no document and no suspended call holds
\* (ObjectIds are never reused; which unused one is taken makes no difference)
ConnectionIds == 1..MaxConnections
FreshIds ==
    {i \in ConnectionIds : /\ \A c \in connections : c.id # i
                           /\ \A a \in answering : a.id # i}

\* Connection.findById(id): the set holding the document, empty when there is none
FindConnection(id) == {c \in connections : c.id = id}

\* POST /api/connections/request, up to the await of Connection.findOne
RequestCheck(u, target) ==
    /\ Idle
    /\ IF Equals(target, u)
       THEN /\ resp' = Requested(400, u, target)
            /\ UNCHANGED inflight
       ELSE IF Between(u, target) # {}
       THEN /\ resp' = Requested(409, u, target)
            /\ UNCHANGED inflight
       ELSE /\ Cardinality(inflight) < MaxInflight
            /\ [requester |-> u, recipient |-> target] \notin inflight
            /\ inflight' = inflight \cup {[requester |-> u, recipient |-> target]}
            /\ resp' = NoResp
    /\ UNCHANGED <<posts, nextId, now, connections, answering, liking, reading, authVars>>

\* POST /api/connections/request, from new Connection(...).save() on
RequestSave(r) ==
    /\ Idle
    /\ r \in inflight
    /\ FreshIds # {}
    /\ inflight' = inflight \ {r}
    /\ IF PreSaveRejects(r.requester, r.recipient) \/ DuplicateKey(r.requester, r.recipient)
       THEN /\ resp' = Requested(500, r.requester, r.recipient)
            /\ UNCHANGED connections
       ELSE /\ connections' = connections \cup
                    {[id |-> CHOOSE i \in FreshIds : \A k \in FreshIds : i <= k,
                      requester |-> r.requester, recipient |-> r.recipient,
                      status |-> "pending"]}
            /\ resp' = Requested(201, r.requester, r.recipient)
    /\ UNCHANGED <<posts, nextId, now, answering, liking, reading, authVars>>

\* the response of accept, decline and delete to the caller u about the record id
Answered(h, st, u, id) == [handler |-> h, status |-> st, user |-> u, id |-> id]

\* accept and decline up to `await connection.save()`: findById, the recipient
\* check and the pending check, then connection.status = status in memory
Answer(h, u, id, status) ==
    /\ Idle
    /\ LET found == FindConnection(id) IN
       IF found = {}
       THEN /\ resp' = Answered(h, 404, u, id)
            /\ UNCHANGED answering
       ELSE LET c == CHOOSE x \in found : TRUE IN
            IF ~Equals(c.recipient, u)
            THEN /\ resp' = Answered(h, 403, u, id)
                 /\ UNCHANGED answering
            ELSE IF c.status # "pending"
            THEN /\ resp' = Answered(h, 400, u, id)
                 /\ UNCHANGED answering
            ELSE /\ Cardinality(answering) < MaxAnswering
                 /\ answering' = answering \cup
                       {[handler |-> h, user |-> u, id |-> id, status |-> status]}
                 /\ resp' = NoResp
    /\ UNCHANGED <<posts, nextId, now, connections, inflight, liking, reading, authVars>>

\* PUT /api/connections/:id/accept, up to the save
Accept(u, id) == Answer("accept", u, id, "accepted")

\* PUT /api/connections/:id/decline, up to the save
Decline(u, id) == Answer("decline", u, id, "declined")

\* accept and decline from `await connection.save()` on: the save writes the
\* modified path, { $set: { status } } on the document's _id, whatever status the
\* stored document has by now.  When the document is gone the save either throws
\* (500) or passes unnoticed (200), depending on the Mongoose version.
AnswerSave(a) ==
    /\ Idle
    /\ a \in answering
    /\ answering' = answering \ {a}
    /\ LET found == FindConnection(a.id) IN
       IF found = {}
       THEN /\ \E st \in {200, 500} : resp' = Answered(a.handler, st, a.user, a.id)
            /\ UNCHANGED connections
       ELSE LET c == CHOOSE x \in found : TRUE IN
            /\ connections' = (connections \ {c}) \cup {[c EXCEPT !.status = a.status]}
            /\ resp' = Answered(a.handler, 200, a.user, a.id)
    /\ UNCHANGED <<posts, nextId, now, inflight, liking, reading, authVars>>

\* DELETE /api/connections/:id
RemoveConnection(u, id) ==
    /\ Idle
    /\ LET found == FindConnection(id) IN
       IF found = {}
       THEN /\ resp' = Answered("removeConnection", 404, u, id)
            /\ UNCHANGED connections
       ELSE LET c == CHOOSE x \in found : TRUE IN
            IF ~Equals(c.requester, u) /\ ~Equals(c.recipient, u)
            THEN /\ resp' = Answered("removeConnection", 403, u, id)
                 /\ UNCHANGED connections
            ELSE /\ connections' = connections \ {c}
                 /\ resp' = Answered("removeConnection", 200, u, id)
    /\ UNCHANGED <<posts, nextId, now, inflight, answering, liking, reading, authVars>>

\* ------------------------------------------------------------ the auth routes

\* generateTokens(user._id).refreshToken: the n-th token signed, with the user's id as
\* its payload; no two tokens signed are the same string
Token(u, n) == [id |-> u, n |-> n]

\* a body without refreshToken
NoToken == [id |-> "none", n |-> 0]

\* a string verifyRefreshToken does not accept
Forged == [id |-> "forged", n |-> 0]

\* verifyRefreshToken(refreshToken): the set holding decoded.id, empty for null
VerifyRefreshToken(t) == IF t.n = 0 THEN {} ELSE {t.id}

\* user.refreshTokens.some(tokenObj => tokenObj.token === refreshToken)
TokenExistsMutantAlways(tokens, t) == TRUE
TokenExists(tokens, t) == \E i \in 1..Len(tokens) : tokens[i] = t

\* user.refreshTokens.filter(tokenObj => tokenObj.token !== refreshToken)
WithoutTokenMutantKeepAll(tokens, t) == tokens
WithoutToken(tokens, t) == SelectSeq(tokens, LAMBDA x : x # t)

\* a save that changes refreshTokens increments the user's __v: the suspended calls
\* of S that loaded this user now hold an older version
AuthOutdated(S, u) == {[r EXCEPT !.stale = (r.stale \/ r.user = u)] : r \in S}

\* the number of an auth call that is suspended at its save
AuthCalls == 1..MaxRefreshing

FreeAuthCall ==
    CHOOSE k \in AuthCalls :
        /\ \A r \in refreshing : r.call # k
        /\ \A j \in AuthCalls : (\A r \in refreshing : r.call # j) => k <= j

\* a response of an auth route to the call of user u that presented the token t;
\* refreshToken: <<>> when the body has no tokens, else <<tokens.refreshToken>>
Auth(h, st, u, t, refreshToken) ==
    [handler |-> h, status |-> st, user |-> u, token |-> t, refreshToken |-> refreshToken]

\* POST /api/auth/login.  The token is pushed and saved: { $push: { refreshTokens } },
\* matched on _id alone.  No token expires within a behaviour, so that
\* cleanExpiredTokens removes nothing.
Login(u, password) ==
    /\ Idle
    /\ IF password # "right"
       THEN /\ resp' = Auth("login", 401, u, NoToken, <<>>)
            /\ UNCHANGED authVars
       ELSE /\ issued < MaxTokens
            /\ issued' = issued + 1
            /\ refreshTokens' = [refreshTokens EXCEPT ![u] = Append(@, Token(u, issued + 1))]
            /\ refreshing' = AuthOutdated(refreshing, u)
            /\ resp' = Auth("login", 200, u, NoToken, <<Token(u, issued + 1)>>)
    /\ UNCHANGED <<posts, nextId, now, connections, inflight, answering, liking, reading>>

\* POST /api/auth/refresh up to `await user.save()`: the token is verified and looked
\* up in the loaded user, the new tokens are generated, and the old token is filtered
\* out of and the new one pushed to the array of the loaded copy
Refresh(t) ==
    /\ Idle
    /\ IF t = NoToken \/ VerifyRefreshToken(t) = {}
       THEN /\ resp' = Auth("refresh", 401, "nobody", t, <<>>)
            /\ UNCHANGED authVars
       ELSE LET u == CHOOSE id \in VerifyRefreshToken(t) : TRUE IN
            IF u \notin Users \/ ~TokenExists(refreshTokens[u], t)
            THEN /\ resp' = Auth("refresh", 401, u, t, <<>>)
                 /\ UNCHANGED authVars
            ELSE /\ issued < MaxTokens
                 /\ Cardinality(refreshing) < MaxRefreshing
                 /\ issued' = issued + 1
                 /\ refreshing' = refreshing \cup
                       {[call |-> FreeAuthCall, handler |-> "refresh", user |-> u,
                         token |-> t, refreshToken |-> <<Token(u, issued + 1)>>,
                         tokens |-> Append(WithoutToken(refreshTokens[u], t),
                                           Token(u, issued + 1)),
                         loaded |-> refreshTokens[u], stale |-> FALSE]}
                 /\ resp' = NoResp
                 /\ UNCHANGED refreshTokens
    /\ UNCHANGED <<posts, nextId, now, connections, inflight, answering, liking, reading>>

\* POST /api/auth/logout with requireAuth, up to `await user.save()`: the token of the
\* body is filtered out of the array of the loaded copy, or the array is emptied
Logout(u, t) ==
    LET tokens == IF t # NoToken THEN WithoutToken(refreshTokens[u], t) ELSE <<>>
    IN  /\ Idle
        /\ Cardinality(refreshing) < MaxRefreshing
        /\ refreshing' = refreshing \cup
              {[call |-> FreeAuthCall, handler |-> "logout", user |-> u,
                token |-> t, refreshToken |-> <<>>, tokens |-> tokens,
                loaded |-> refreshTokens[u], stale |-> FALSE]}
        /\ resp' = NoResp
        /\ UNCHANGED <<refreshTokens, issued>>
        /\ UNCHANGED <<posts, nextId, now, connections, inflight, answering, liking, reading>>

\* refresh and logout from `await user.save()` on.  The array was assigned, so the
\* save sends { $set: { refreshTokens }, $inc: { __v } } and matches on the loaded
\* __v (the version key of a schema that does not turn it off): the save of an
\* outdated copy throws a VersionError, 500.  An array assigned with what it held
\* before is not modified, and its save sends nothing.
AuthSave(r) ==
    /\ Idle
    /\ r \in refreshing
    /\ IF r.tokens = r.loaded
       THEN /\ resp' = Auth(r.handler, 200, r.user, r.token, r.refreshToken)
            /\ refreshing' = refreshing \ {r}
            /\ UNCHANGED refreshTokens
       ELSE IF r.stale
       THEN /\ resp' = Auth(r.handler, 500, r.user, r.token, <<>>)
            /\ refreshing' = refreshing \ {r}
            /\ UNCHANGED refreshTokens
       ELSE /\ refreshTokens' = [refreshTokens EXCEPT ![r.user] = r.tokens]
            /\ refreshing' = AuthOutdated(refreshing \ {r}, r.user)
            /\ resp' = Auth(r.handler, 200, r.user, r.token, r.refreshToken)
    /\ UNCHANGED issued
    /\ UNCHANGED <<posts, nextId, now, connections, inflight, answering, liking, reading>>

\* ------------------------------------------------------------ read handlers

\* Connection.find({ $or: [{requester: v, status: 'accepted'},
\*                         {recipient: v, status: 'accepted'}] })
AcceptedOfMutantAnyStatus(v) ==
    {c \in connections : c.requester = v \/ c.recipient = v}
AcceptedOf(v) ==
    {c \in connections : /\ c.status = "accepted"
                         /\ (c.requester = v \/ c.recipient = v)}

\* connections.map(conn => conn.requester.equals(v) ? conn.recipient : conn.requester)
\* and connectedUserIds.push(v), as the set of its elements
ConnectedUserIds(v) ==
    {IF c.requester = v THEN c.recipient ELSE c.requester : c \in AcceptedOf(v)} \cup {v}

\* the pagination object of a response
Pagination(page, limit, totalPosts) ==
    [currentPage |-> page,
     totalPages  |-> Ceil(totalPosts, limit),
     totalPosts  |-> totalPosts,
     hasNext     |-> page < Ceil(totalPosts, limit),
     hasPrev     |-> page > 1]

\* the pagination object of the "No published posts found" responses
ZeroPagination ==
    [currentPage |-> 1, totalPages |-> 0, totalPosts |-> 0,
     hasNext |-> FALSE, hasPrev |-> FALSE]

\* A response of a route that answers with a page of posts.  fields: the keys of
\* the JSON body; posts: the body's posts; pagination: <<>> when the body has no
\* pagination object, else <<the object>>.
Page(h, st, v, sortBy, rawPage, rawLimit, fields, ps, pagination) ==
    [handler |-> h, status |-> st, viewer |-> v, sortBy |-> sortBy,
     rawPage |-> rawPage, rawLimit |-> rawLimit, fields |-> fields,
     posts |-> ps, pagination |-> pagination]

\* no store operation of the call throws
NoFault == "none"

\* a response of a handler whose store operation `fault` threw (NoFault: none did);
\* the record also keeps the handler's local `limit`
Faulted(r, limit, fault) == r @@ [limit |-> limit, fault |-> fault]

\* GET /api/posts/feed, run from its first line to its response with no other call
\* in between.  The body is { posts, pagination }; the record of the
\* response also keeps the handler's local connectedUserIds, which the body does
\* not carry.  A store operation that throws is caught: 500 { error }.
FeedOps == {"Connection.find", "Post.find", "Post.countDocuments"}

Feed(v, rawPage, rawLimit, fault) ==
    LET page  == PageOf(rawPage)
        limit == LimitOf(rawLimit)
        skip  == (page - 1) * limit
        connectedUserIds == ConnectedUserIds(v)
        matching == {p \in Published : p.author \in connectedUserIds}
    IN  /\ Idle
        /\ IF fault \in FeedOps
           THEN resp' = Faulted(Page("feed", 500, v, "latest", rawPage, rawLimit,
                                     {"error"}, <<>>, <<>>), limit, fault)
           ELSE \E sorted \in ByCreatedDesc(matching) :
                  resp' = Faulted(Page("feed", 200, v, "latest", rawPage, rawLimit,
                                       {"posts", "pagination"},
                                       Slice(sorted, skip, limit),
                                       <<Pagination(page, limit, Cardinality(matching))>>) @@
                                  [connectedUserIds |-> connectedUserIds], limit, fault)
        /\ UNCHANGED <<posts, nextId, now, connections, inflight, answering, liking, reading, authVars>>

\* the binding `const connectedUserIds` of the suspended feed call c: every call has
\* its own
ConnectedUserIdsOfMutantShared(c) ==
    (CHOOSE d \in reading : \A e \in reading : d.call >= e.call).connectedUserIds
ConnectedUserIdsOf(c) == c.connectedUserIds

\* the number of a feed call that is suspended at an await
FeedCalls == 1..MaxReading

\* the 500 { error } of the catch block of GET /api/posts/feed
FeedError(v, rawPage, rawLimit, fault) ==
    Faulted(Page("feed", 500, v, "latest", rawPage, rawLimit, {"error"}, <<>>, <<>>),
            LimitOf(rawLimit), fault)

\* GET /api/posts/feed up to `await Post.find(...)`: the Connection.find has
\* answered and connectedUserIds is built
FeedFind(v, rawPage, rawLimit, fault) ==
    /\ Idle
    /\ IF fault = "Connection.find"
       THEN /\ resp' = FeedError(v, rawPage, rawLimit, fault)
            /\ UNCHANGED reading
       ELSE /\ Cardinality(reading) < MaxReading
            /\ reading' = reading \cup
                  {[call |-> CHOOSE k \in FeedCalls :
                                /\ \A c \in reading : c.call # k
                                /\ \A j \in FeedCalls :
                                      (\A c \in reading : c.call # j) => k <= j,
                    viewer |-> v, rawPage |-> rawPage, rawLimit |-> rawLimit,
                    await |-> "Post.find",
                    connectedUserIds |-> ConnectedUserIds(v),
                    posts |-> <<>>]}
            /\ resp' = NoResp
    /\ UNCHANGED <<posts, nextId, now, connections, inflight, answering, liking, authVars>>

\* GET /api/posts/feed from `await Post.find(...)` to `await Post.countDocuments(...)`
FeedPosts(c, fault) ==
    LET page  == PageOf(c.rawPage)
        limit == LimitOf(c.rawLimit)
        skip  == (page - 1) * limit
        matching == {p \in Published : p.author \in ConnectedUserIdsOf(c)}
    IN  /\ Idle
        /\ c \in reading
        /\ c.await = "Post.find"
        /\ IF fault = "Post.find"
           THEN /\ resp' = FeedError(c.viewer, c.rawPage, c.rawLimit, fault)
                /\ reading' = reading \ {c}
           ELSE /\ \E sorted \in ByCreatedDesc(matching) :
                      reading' = (reading \ {c}) \cup
                          {[c EXCEPT !.await = "Post.countDocuments",
                                     !.posts = Slice(sorted, skip, limit)]}
                /\ resp' = NoResp
        /\ UNCHANGED <<posts, nextId, now, connections, inflight, answering, liking, authVars>>

\* GET /api/posts/feed from `await Post.countDocuments(...)` on
FeedCount(c, fault) ==
    LET page  == PageOf(c.rawPage)
        limit == LimitOf(c.rawLimit)
        totalPosts == Cardinality({p \in Published : p.author \in ConnectedUserIdsOf(c)})
    IN  /\ Idle
        /\ c \in reading
        /\ c.await = "Post.countDocuments"
        /\ reading' = reading \ {c}
        /\ resp' = IF fault = "Post.countDocuments"
                   THEN FeedError(c.viewer, c.rawPage, c.rawLimit, fault)
                   ELSE Faulted(Page("feed", 200, c.viewer, "latest", c.rawPage, c.rawLimit,
                                     {"posts", "pagination"}, c.posts,
                                     <<Pagination(page, limit, totalPosts)>>) @@
                                [connectedUserIds |-> ConnectedUserIdsOf(c)], limit, NoFault)
        /\ UNCHANGED <<posts, nextId, now, connections, inflight, answering, liking, authVars>>

\* GET /api/posts/discover with requireAuth: `page` is declared nowhere in the
\* handler or the module, so (page - 1) * limit throws a ReferenceError before the
\* first query, and the catch block answers
\*   500 { error: 'Internal Server Error', message, stack }
Discover(v, rawPage, rawLimit, sortBy) ==
    /\ Idle
    /\ resp' = Faulted(Page("discover", 500, v, sortBy, rawPage, rawLimit,
                            {"error", "message", "stack"}, <<>>, <<>>),
                       CappedLimitOf(rawLimit), NoFault)
    /\ UNCHANGED <<posts, nextId, now, connections, inflight, answering, liking, reading, authVars>>

\* the post of a response with likesCount, commentsCount and isLiked added
WithStats(p, isLiked) ==
    [id |-> p.id, author |-> p.author, createdAt |-> p.createdAt,
     isPublished |-> p.isPublished, likes |-> p.likes, comments |-> p.comments,
     tags |-> p.tags,
     likesCount |-> Len(p.likes), commentsCount |-> Len(p.comments),
     isLiked |-> isLiked]

\* the sort key MongoDB reads at the path 'likes.length': the field `length` of the
\* subdocuments of likes, which none of them has (null for every post)
LikesLengthPath(p) == 0

\* .sort(sortObj) of the public discover route
PublicSort(sortBy, S) ==
    CASE sortBy = "oldest"  -> ByCreatedAsc(S)
      [] sortBy = "popular" ->
            SortDesc(S, [p \in S |-> LikesLengthPath(p) * (now + 1) + p.createdAt])
      [] sortBy = "trending" -> ByCreatedDesc(S)
      [] OTHER -> ByCreatedDesc(S)

\* handleError(res, error, message): 500 { error: message }, with details:
\* error.message added when NODE_ENV is 'development'
HandleError(h, v, sortBy, rawPage, rawLimit, development) ==
    Page(h, 500, v, sortBy, rawPage, rawLimit,
         IF development THEN {"error", "details"} ELSE {"error"}, <<>>, <<>>)

\* GET /api/posts/discover, the public route with the page size capped
PublicOps == {"Post.countDocuments", "Post.find"}

DiscoverPublic(rawPage, rawLimit, sortBy, fault) ==
    LET page  == PageOf(rawPage)
        limit == CappedLimitOf(rawLimit)
        skip  == (page - 1) * limit
        totalPosts == Cardinality(Published)
    IN  /\ Idle
        /\ IF fault = "Post.countDocuments" \/ (fault = "Post.find" /\ totalPosts # 0)
           THEN \E development \in BOOLEAN :
                  resp' = Faulted(HandleError("discoverPublic", Anonymous, sortBy, rawPage,
                                              rawLimit, development), limit, fault)
           ELSE IF totalPosts = 0
           THEN resp' = Faulted(Page("discoverPublic", 200, Anonymous, sortBy, rawPage,
                                     rawLimit, {"posts", "pagination", "sortBy", "message"},
                                     <<>>, <<ZeroPagination>>), limit, NoFault)
           ELSE \E sorted \in PublicSort(sortBy, Published) :
                  resp' = Faulted(Page("discoverPublic", 200, Anonymous, sortBy, rawPage,
                                       rawLimit, {"posts", "pagination", "sortBy", "filters"},
                                       LET page_ == Slice(sorted, skip, limit)
                                       IN  [i \in 1..Len(page_) |-> WithStats(page_[i], FALSE)],
                                       <<Pagination(page, limit, totalPosts)>>), limit, NoFault)
        /\ UNCHANGED <<posts, nextId, now, connections, inflight, answering, liking, reading, authVars>>

\* GET /api/posts/discover, "Simplified version for debugging".  A throw of
\* Post.populate is caught on its own and the unpopulated posts are sent; any other
\* throw reaches the outer catch: 500 { error, message, timestamp, debug }.
SimpleOps == {"Post.countDocuments", "Post.find", "Post.populate"}

DiscoverSimple(rawPage, rawLimit, sortBy, fault) ==
    LET page  == PageOf(rawPage)
        limit == LimitOf(rawLimit)
        skip  == (page - 1) * limit
        publishedCount == Cardinality(Published)
    IN  /\ Idle
        /\ IF fault = "Post.countDocuments" \/ (fault = "Post.find" /\ publishedCount # 0)
           THEN resp' = Faulted(Page("discoverSimple", 500, Anonymous, sortBy, rawPage,
                                     rawLimit, {"error", "message", "timestamp", "debug"},
                                     <<>>, <<>>), limit, fault)
           ELSE IF publishedCount = 0
           THEN resp' = Faulted(Page("discoverSimple", 200, Anonymous, "latest", rawPage,
                                     rawLimit, {"posts", "pagination", "sortBy", "message"},
                                     <<>>, <<ZeroPagination>>), limit, NoFault)
           ELSE \E sorted \in ByCreatedDesc(Published) :
                  resp' = Faulted(Page("discoverSimple", 200, Anonymous, sortBy, rawPage,
                                       rawLimit, {"posts", "pagination", "sortBy", "debug"},
                                       Slice(sorted, skip, limit),
                                       <<Pagination(page, limit, publishedCount)>>), limit,
                                  IF fault = "Post.populate" THEN fault ELSE NoFault)
        /\ UNCHANGED <<posts, nextId, now, connections, inflight, answering, liking, reading, authVars>>

\* $add: [{ $size: "$likes" }, { $multiply: [{ $size: "$comments" }, 2] }]
EngagementScore(p) == Len(p.likes) + 2 * Len(p.comments)

\* mixedScore = (new Date() - createdAt) / (1000 * 60 * 60 * 24)
\*              + 0.1 * ($size likes + 1.5 * $size comments),
\* times 20 * DayTicks to stay in the integers
MixedScore(p) ==
    20 * (now - p.createdAt) + DayTicks * (2 * Len(p.likes) + 3 * Len(p.comments))

\* { $sample: { size: n } }: n documents of S drawn at random, fewer when S is smaller
RECURSIVE SampleMutantRepeating(_, _)
SampleMutantRepeating(S, n) ==
    IF n = 0 \/ S = {} THEN {<<>>}
    ELSE UNION {{<<x>> \o r : r \in SampleMutantRepeating(S, n - 1)} : x \in S}

RECURSIVE Sample(_, _)
Sample(S, n) ==
    IF n = 0 \/ S = {} THEN {<<>>}
    ELSE UNION {{<<x>> \o r : r \in Sample(S \ {x}, n - 1)} : x \in S}

\* the pipeline or the find of the aggregating discover route, before $skip and $limit
AggregateSort(sortBy, S, limit) ==
    CASE sortBy = "latest"  -> ByCreatedDesc(S)
      [] sortBy = "popular" ->
            SortDesc(S, [p \in S |-> EngagementScore(p) * (now + 1) + p.createdAt])
      [] sortBy = "random"  -> Sample(S, limit * 2)
      [] OTHER -> SortDesc(S, [p \in S |-> MixedScore(p)])

\* GET /api/posts/discover, the route built on aggregation pipelines; a store
\* operation that throws is caught: 500 { error }.  The body is { posts, pagination,
\* sortBy }; in random mode the record of the response also keeps the output of the
\* $sample stage, which the body does not carry.
AggregateOps == {"Post.aggregate", "Post.countDocuments"}

DiscoverAggregate(rawPage, rawLimit, sortBy, fault) ==
    LET page  == PageOf(rawPage)
        limit == LimitOf(rawLimit)
        skip  == (page - 1) * limit
    IN  /\ Idle
        /\ IF fault \in AggregateOps
           THEN resp' = Faulted(Page("discoverAggregate", 500, Anonymous, sortBy, rawPage,
                                     rawLimit, {"error"}, <<>>, <<>>), limit, fault)
           ELSE \E sorted \in AggregateSort(sortBy, Published, limit) :
                  LET r == Faulted(Page("discoverAggregate", 200, Anonymous, sortBy, rawPage,
                                        rawLimit, {"posts", "pagination", "sortBy"},
                                        Slice(sorted, skip, limit),
                                        <<Pagination(page, limit, Cardinality(Published))>>),
                                   limit, NoFault)
                  IN  resp' = IF sortBy = "random" THEN r @@ [sample |-> sorted] ELSE r
        /\ UNCHANGED <<posts, nextId, now, connections, inflight, answering, liking, reading, authVars>>

\* GET /api/posts/user/:userId
UserPosts(target, rawPage, rawLimit) ==
    LET page  == PageOf(rawPage)
        limit == CappedLimitOf(rawLimit)
        skip  == (page - 1) * limit
        matching == {p \in Published : p.author = target}
    IN  /\ Idle
        /\ \E sorted \in ByCreatedDesc(matching) :
              resp' = Page("userPosts", 200, Anonymous, "latest", rawPage, rawLimit,
                           {"posts"}, Slice(sorted, skip, limit), <<>>)
        /\ UNCHANGED <<posts, nextId, now, connections, inflight, answering, liking, reading, authVars>>

\* { $match: { isPublished: true } }, { $unwind: '$tags' }: one row per element of
\* the tag list of a published post
TagRows == UNION {{<<p, i>> : i \in 1..Len(p.tags)} : p \in Published}

\* { $group: { _id: '$tags', count: {$sum: 1}, recentPosts: {$sum: {$cond: [...]}} } }
TagGroups ==
    {[tag |-> t,
      totalPosts  |-> Cardinality({r \in TagRows : r[1].tags[r[2]] = t}),
      recentPosts |-> Cardinality({r \in TagRows : /\ r[1].tags[r[2]] = t
                                                   /\ r[1].createdAt >= now - WeekTicks})]
     : t \in {r[1].tags[r[2]] : r \in TagRows}}

\* { $sort: { recentPosts: -1, count: -1 } } as one key; no count exceeds `rows`
TagSortKeyMutantCountOnly(g, rows) == g.totalPosts
TagSortKey(g, rows) == g.recentPosts * (rows + 1) + g.totalPosts

\* GET /api/posts/trending-tags
TrendingTags(rawLimit) ==
    LET limit == LimitOf(rawLimit)
        rows  == Cardinality(TagRows)
    IN  /\ Idle
        /\ \E sorted \in SortDesc(TagGroups, [g \in TagGroups |-> TagSortKey(g, rows)]) :
              resp' = [handler |-> "trendingTags", status |-> 200, rawLimit |-> rawLimit,
                       tags |-> Slice(sorted, 0, limit)]
        /\ UNCHANGED <<posts, nextId, now, connections, inflight, answering, liking, reading, authVars>>

\* res.json(...): the client takes the response
Receive ==
    /\ resp # NoResp
    /\ resp' = NoResp
    /\ UNCHANGED <<posts, nextId, now, connections, inflight, answering, liking, reading, authVars>>

\* ----------------------------------------------------------- specifications

\* what a client can send
RawPages  == {0, 1, 2}
RawLimits == {0, 1, 2}
SortModes == {"latest", "oldest", "popular", "trending", "mixed", "random", "newest"}
TagLists  == {<<>>, <<"js">>, <<"Tla">>, <<"JS ", "tla">>, <<"js", "js">>}

Passwords == {"right", "wrong"}

\* the tokens a client can have: those signed, but for the ones a suspended refresh
\* call has signed and not answered with yet
Delivered ==
    {Token(u, n) : u \in Users, n \in 1..issued}
        \ {r.refreshToken[1] : r \in {x \in refreshing : x.refreshToken # <<>>}}

\* the refresh tokens a body can hold
Presented == Delivered \cup {NoToken, Forged}

\* the empty database
Init ==
    /\ posts = {}
    /\ nextId = 1
    /\ now = 0
    /\ connections = {}
    /\ inflight = {}
    /\ answering = {}
    /\ liking = {}
    /\ reading = {}
    /\ refreshTokens = [u \in Users |-> <<>>]
    /\ refreshing = {}
    /\ issued = 0
    /\ resp = NoResp

Next ==
    \/ \E u \in Users, ts \in TagLists, b \in BOOLEAN : CreatePost(u, ts, b)
    \/ \E u \in Users, id \in 1..MaxPosts, ts \in TagLists, b \in {<<>>, <<TRUE>>, <<FALSE>>} :
          UpdatePost(u, id, ts, b)
    \/ \E u \in Users, id \in 1..MaxPosts : DeletePost(u, id)
    \/ \E u \in Users, id \in 1..MaxPosts : ToggleLike(u, id)
    \/ \E l \in liking : LikeSave(l)
    \/ \E u \in Users, id \in 1..MaxPosts : AddComment(u, id)
    \/ Tick
    \/ Week
    \/ \E u \in Users, t \in Users : RequestCheck(u, t)
    \/ \E r \in inflight : RequestSave(r)
    \/ \E u \in Users, id \in ConnectionIds : Accept(u, id)
    \/ \E u \in Users, id \in ConnectionIds : Decline(u, id)
    \/ \E a \in answering : AnswerSave(a)
    \/ \E u \in Users, id \in ConnectionIds : RemoveConnection(u, id)
    \/ \E v \in Users, rp \in RawPages, rl \in RawLimits, f \in FeedOps \cup {NoFault} :
          Feed(v, rp, rl, f)
    \/ \E v \in Users, rp \in RawPages, rl \in RawLimits, f \in FeedOps \cup {NoFault} :
          FeedFind(v, rp, rl, f)
    \/ \E c \in reading, f \in FeedOps \cup {NoFault} : FeedPosts(c, f)
    \/ \E c \in reading, f \in FeedOps \cup {NoFault} : FeedCount(c, f)
    \/ \E v \in Users, rp \in RawPages, rl \in RawLimits, m \in SortModes :
          Discover(v, rp, rl, m)
    \/ \E rp \in RawPages, rl \in RawLimits, m \in SortModes, f \in PublicOps \cup {NoFault} :
          DiscoverPublic(rp, rl, m, f)
    \/ \E rp \in RawPages, rl \in RawLimits, m \in SortModes, f \in SimpleOps \cup {NoFault} :
          DiscoverSimple(rp, rl, m, f)
    \/ \E rp \in RawPages, rl \in RawLimits, m \in SortModes, f \in AggregateOps \cup {NoFault} :
          DiscoverAggregate(rp, rl, m, f)
    \/ \E t \in Users, rp \in RawPages, rl \in RawLimits : UserPosts(t, rp, rl)
    \/ \E rl \in RawLimits : TrendingTags(rl)
    \/ \E u \in Users, pw \in Passwords : Login(u, pw)
    \/ \E t \in Presented : Refresh(t)
    \/ \E u \in Users, t \in Presented : Logout(u, t)
    \/ \E r \in refreshing : AuthSave(r)
    \/ Receive

Spec == Init /\ [][Next]_vars

\* Connections under concurrency: requests between alice and bob in both directions,
\* from carol to alice and from carol to herself, answered and removed by anyone, with
\* the calls suspended at their awaits in any interleaving; every user reads the feed.
NextConn ==
    \/ \E r \in {<<"alice", "bob">>, <<"bob", "alice">>, <<"carol", "alice">>,
                 <<"carol", "carol">>} : RequestCheck(r[1], r[2])
    \/ \E r \in inflight : RequestSave(r)
    \/ \E u \in Users, id \in ConnectionIds : Accept(u, id)
    \/ \E u \in Users, id \in ConnectionIds : Decline(u, id)
    \/ \E a \in answering : AnswerSave(a)
    \/ \E u \in Users, id \in ConnectionIds : RemoveConnection(u, id)
    \/ \E v \in Users : Feed(v, 0, 0, NoFault)
    \/ Receive

SpecConn == Init /\ [][NextConn]_vars

\* Friends: every call runs to its response before the next one starts.  alice asks
\* bob, carol and bob ask alice; the requests are answered and removed by anyone;
\* every user publishes one post and reads the feed.
NoCallSuspended == inflight = {} /\ answering = {}

NextFriends ==
    \/ \E r \in {<<"alice", "bob">>, <<"bob", "alice">>, <<"carol", "alice">>} :
          NoCallSuspended /\ RequestCheck(r[1], r[2])
    \/ \E r \in inflight : RequestSave(r)
    \/ \E u \in Users, id \in ConnectionIds : NoCallSuspended /\ Accept(u, id)
    \/ \E u \in Users, id \in ConnectionIds : NoCallSuspended /\ Decline(u, id)
    \/ \E a \in answering : AnswerSave(a)
    \/ \E u \in Users, id \in ConnectionIds : NoCallSuspended /\ RemoveConnection(u, id)
    \/ \E u \in Users : (\A p \in posts : p.author # u) /\ CreatePost(u, <<>>, TRUE)
    \/ \E v \in Users : NoCallSuspended /\ Feed(v, 0, 0, NoFault)
    \/ Receive

SpecFriends == Init /\ [][NextFriends]_vars

\* Feeds: bob's request to alice was accepted and carol's is pending.  Posts are
\* created (each user with the tags that user writes), published, unpublished and
\* deleted, time passes, and every route that answers with posts or tags is called.
InitFeed ==
    /\ posts = {}
    /\ nextId = 1
    /\ now = 0
    /\ connections = {[id |-> 1, requester |-> "bob", recipient |-> "alice",
                       status |-> "accepted"],
                      [id |-> 2, requester |-> "carol", recipient |-> "alice",
                       status |-> "pending"]}
    /\ inflight = {}
    /\ answering = {}
    /\ liking = {}
    /\ reading = {}
    /\ refreshTokens = [u \in Users |-> <<>>]
    /\ refreshing = {}
    /\ issued = 0
    /\ resp = NoResp

FeedAuthors == {<<"alice", <<"js">>>>, <<"bob", <<>>>>, <<"carol", <<"JS ", "tla">>>>}
FeedPages == {<<0, 0>>, <<1, 1>>, <<2, 1>>}
FeedModes == {"latest", "oldest"}

NextFeed ==
    \/ \E a \in FeedAuthors, b \in BOOLEAN : CreatePost(a[1], a[2], b)
    \/ \E p \in posts, b \in {<<TRUE>>, <<FALSE>>} : UpdatePost(p.author, p.id, p.tags, b)
    \/ \E p \in posts : DeletePost(p.author, p.id)
    \/ Tick
    \/ \E v \in Users, pg \in FeedPages : Feed(v, pg[1], pg[2], NoFault)
    \/ \E v \in Users, pg \in FeedPages, m \in FeedModes : Discover(v, pg[1], pg[2], m)
    \/ \E pg \in FeedPages, m \in FeedModes : DiscoverPublic(pg[1], pg[2], m, NoFault)
    \/ \E pg \in FeedPages, m \in FeedModes : DiscoverSimple(pg[1], pg[2], m, NoFault)
    \/ \E pg \in FeedPages : DiscoverAggregate(pg[1], pg[2], "latest", NoFault)
    \/ \E t \in Users, pg \in FeedPages : UserPosts(t, pg[1], pg[2])
    \/ TrendingTags(0)
    \/ Receive

SpecFeed == InitFeed /\ [][NextFeed]_vars

\* Ranking: alice publishes posts, bob and carol like them, carol comments, time
\* passes, and the discover routes are called in their engagement modes.
RankModes == {"popular", "trending", "mixed"}

NextRank ==
    \/ CreatePost("alice", <<>>, TRUE)
    \/ \E u \in {"bob", "carol"}, p \in posts : liking = {} /\ ToggleLike(u, p.id)
    \/ \E l \in liking : LikeSave(l)
    \/ \E p \in posts : AddComment("carol", p.id)
    \/ Tick
    \/ \E m \in RankModes : Discover("bob", 0, 0, m)
    \/ \E m \in RankModes : DiscoverPublic(0, 0, m, NoFault)
    \/ \E m \in RankModes : DiscoverAggregate(0, 0, m, NoFault)
    \/ Receive

SpecRank == Init /\ [][NextRank]_vars

\* Faults: bob and carol publish and unpublish posts, bob's request to alice is
\* accepted, and the feed and discover routes are called while the store operations
\* of a call may throw.
FaultPages == {<<0, 0>>, <<1, 51>>}

NextFault ==
    \/ \E u \in {"bob", "carol"}, b \in BOOLEAN : CreatePost(u, <<>>, b)
    \/ NoCallSuspended /\ RequestCheck("bob", "alice")
    \/ \E r \in inflight : RequestSave(r)
    \/ \E id \in ConnectionIds : NoCallSuspended /\ Accept("alice", id)
    \/ \E a \in answering : AnswerSave(a)
    \/ \E v \in {"alice", "carol"}, pg \in FaultPages, f \in FeedOps \cup {NoFault} :
          Feed(v, pg[1], pg[2], f)
    \/ \E pg \in FaultPages, m \in {"latest", "newest"} : Discover("alice", pg[1], pg[2], m)
    \/ \E pg \in FaultPages, m \in {"latest", "newest"}, f \in PublicOps \cup {NoFault} :
          DiscoverPublic(pg[1], pg[2], m, f)
    \/ \E pg \in FaultPages, m \in {"latest", "newest"}, f \in SimpleOps \cup {NoFault} :
          DiscoverSimple(pg[1], pg[2], m, f)
    \/ \E pg \in FaultPages, m \in {"latest", "newest"}, f \in AggregateOps \cup {NoFault} :
          DiscoverAggregate(pg[1], pg[2], m, f)
    \/ Receive

SpecFault == Init /\ [][NextFault]_vars

\* Tags: alice writes posts with tag lists, also lists that repeat a tag
\* once normalised; posts are unpublished and published again, weeks pass, and the
\* trending tags are asked for with and without a limit.
TagPages == {0, 1}

NextTags ==
    \/ \E ts \in TagLists : CreatePost("alice", ts, TRUE)
    \/ \E p \in posts, b \in {<<TRUE>>, <<FALSE>>} : UpdatePost(p.author, p.id, p.tags, b)
    \/ Week
    \/ \E rl \in TagPages : TrendingTags(rl)
    \/ Receive

SpecTags == Init /\ [][NextTags]_vars

\* Likes: alice publishes posts and deletes them, bob and carol send like calls that
\* are suspended at their awaits in any interleaving, also two calls of one user on
\* one post, and carol comments.
NextLikes ==
    \/ nextId < MaxPosts /\ CreatePost("alice", <<>>, TRUE)
    \/ \E p \in posts : DeletePost("alice", p.id)
    \/ \E u \in {"bob", "carol"}, p \in posts : ToggleLike(u, p.id)
    \/ \E l \in liking : LikeSave(l)
    \/ \E p \in posts : AddComment("carol", p.id)
    \/ Receive

SpecLikes == Init /\ [][NextLikes]_vars

\* Random discovery: alice and bob write posts, publish, unpublish and delete them, and
\* the aggregating discover route is asked for pages of its random mode, also pages
\* beyond the sample.
RandomPages == {<<0, 0>>, <<1, 1>>, <<2, 1>>, <<3, 1>>, <<1, 2>>, <<2, 2>>}

NextRandom ==
    \/ \E u \in {"alice", "bob"}, b \in BOOLEAN : CreatePost(u, <<>>, b)
    \/ \E p \in posts, b \in {<<TRUE>>, <<FALSE>>} : UpdatePost(p.author, p.id, p.tags, b)
    \/ \E p \in posts : DeletePost(p.author, p.id)
    \/ \E pg \in RandomPages : DiscoverAggregate(pg[1], pg[2], "random", NoFault)
    \/ Receive

SpecRandom == Init /\ [][NextRandom]_vars

\* Reads: bob's request to alice was accepted and carol's is pending.  Feed calls of
\* all users are suspended at their awaits in any interleaving, a store operation of
\* a call may throw, and the discover and trending-tags routes are called in between.
\* Posts are written and connections removed while no feed call is suspended.
NoReadSuspended == reading = {}

ReadPages == {<<0, 0>>, <<2, 1>>}

NextReads ==
    \/ \E u \in {"bob", "carol"}, b \in BOOLEAN :
          NoReadSuspended /\ nextId < MaxPosts /\ CreatePost(u, <<"js">>, b)
    \/ \E p \in posts : NoReadSuspended /\ DeletePost(p.author, p.id)
    \/ \E id \in ConnectionIds : NoReadSuspended /\ RemoveConnection("alice", id)
    \/ \E v \in Users, pg \in ReadPages, f \in {"Connection.find", NoFault} :
          FeedFind(v, pg[1], pg[2], f)
    \/ \E c \in reading, f \in {"Post.find", NoFault} : FeedPosts(c, f)
    \/ \E c \in reading, f \in {"Post.countDocuments", NoFault} : FeedCount(c, f)
    \/ \E v \in Users : Discover(v, 0, 0, "latest")
    \/ DiscoverPublic(0, 0, "latest", NoFault)
    \/ TrendingTags(0)
    \/ Receive

SpecReads == InitFeed /\ [][NextReads]_vars

\* Sessions: alice logs in, presents refresh tokens that were signed, forged or none,
\* and, once she has logged in, logs out, one logout at a time; the refresh and
\* logout calls are suspended at their awaits in any interleaving.
SessionTokens == {t \in Presented : t.id # "bob" /\ t.id # "carol"}

NextAuth ==
    \/ \E pw \in Passwords : Login("alice", pw)
    \/ \E t \in SessionTokens : Refresh(t)
    \/ \E t \in SessionTokens :
          issued > 0 /\ (\A r \in refreshing : r.handler # "logout") /\ Logout("alice", t)
    \/ \E r \in refreshing : AuthSave(r)
    \/ Receive

SpecAuth == Init /\ [][NextAuth]_vars

\* Authors: alice and bob write posts; every user asks to update and to delete every
\* post id, also ids that no post has, with and without a publication flag.
AuthorTags == {<<>>, <<"JS ">>}

NextAuthors ==
    \/ \E u \in {"alice", "bob"}, b \in BOOLEAN : CreatePost(u, <<>>, b)
    \/ \E u \in Users, id \in 1..MaxPosts, ts \in AuthorTags, b \in {<<>>, <<TRUE>>, <<FALSE>>} :
          UpdatePost(u, id, ts, b)
    \/ \E u \in Users, id \in 1..MaxPosts : DeletePost(u, id)
    \/ Receive

SpecAuthors == Init /\ [][NextAuthors]_vars

\* ------------------------------------------------- what the claims speak of

PublishedPosts == {p \in posts : p.isPublished = TRUE}

\* the users an accepted Connection record joins to v, in either direction
AcceptedWith(v) ==
    {u \in Users \ {v} : \E c \in connections :
        /\ c.status = "accepted"
        /\ {c.requester, c.recipient} = {u, v}}

ConnectedSet(v) == {v} \cup AcceptedWith(v)

\* Bucket A of the viewer v: a post of the connected set from the last 24 hours
RecentConnectionPost(p, v) ==
    /\ p.author \in ConnectedSet(v)
    /\ p.createdAt >= now - DayTicks

\* max(0, 30 - daysSinceCreated) + 2 * (likeCount + 1.5 * commentCount), times DayTicks
TrendingScore(p) ==
    (IF 30 * DayTicks - (now - p.createdAt) > 0 THEN 30 * DayTicks - (now - p.createdAt) ELSE 0)
    + DayTicks * (2 * Len(p.likes) + 3 * Len(p.comments))

\* a comes strictly before b in the full sequence of mode m for the viewer v
Precedes(a, b, v, m) ==
    CASE m = "oldest" -> a.createdAt < b.createdAt
      [] m = "popular" ->
            \/ Len(a.likes) > Len(b.likes)
            \/ Len(a.likes) = Len(b.likes) /\ a.createdAt > b.createdAt
      [] m \in {"trending", "mixed"} ->
            \/ TrendingScore(a) > TrendingScore(b)
            \/ TrendingScore(a) = TrendingScore(b) /\ a.createdAt > b.createdAt
      [] OTHER ->
            IF AcceptedWith(v) # {}
            THEN \/ RecentConnectionPost(a, v) /\ ~RecentConnectionPost(b, v)
                 \/ /\ RecentConnectionPost(a, v) = RecentConnectionPost(b, v)
                    /\ a.createdAt > b.createdAt
            ELSE a.createdAt > b.createdAt

\* the place of p in that full sequence
Rank(p, v, m) == 1 + Cardinality({q \in PublishedPosts : Precedes(q, p, v, m)})

\* where the post with this id stands in the response
Positions(id) == {i \in 1..Len(resp.posts) : resp.posts[i].id = id}

DiscoverRoutes == {"discover", "discoverPublic", "discoverSimple", "discoverAggregate"}
PostRoutes == DiscoverRoutes \cup {"feed", "userPosts"}

\* the first page of the response was asked for, with room for every published post
WholeFeedAsked ==
    /\ resp.rawPage \in {0, 1}
    /\ resp.rawLimit = 0 \/ resp.rawLimit >= Cardinality(PublishedPosts)

\* ------------------------------------------------------------------- claims

\* C1: in the discover feed under latest mode, for a viewer with at least one
\* accepted connection, every published post of the connected set from the last 24
\* hours appears, and appears strictly before every published post that is not one.
C1_RecentConnectionPostsFirst ==
    (/\ resp.handler = "discover"
     /\ resp.sortBy = "latest"
     /\ AcceptedWith(resp.viewer) # {}
     /\ WholeFeedAsked)
    => \A a \in PublishedPosts, b \in PublishedPosts :
          (RecentConnectionPost(a, resp.viewer) /\ ~RecentConnectionPost(b, resp.viewer))
          => \E i \in Positions(a.id) : \A j \in Positions(b.id) : i < j

\* C2: in the discover feed under latest mode the published posts that are not recent
\* connection posts all appear once, after the recent connection posts, as one
\* timeline in descending creation time.
C2_OneTimeline ==
    (/\ resp.handler = "discover"
     /\ resp.sortBy = "latest"
     /\ AcceptedWith(resp.viewer) # {}
     /\ WholeFeedAsked)
    => /\ \A b \in PublishedPosts :
             ~RecentConnectionPost(b, resp.viewer) => Cardinality(Positions(b.id)) = 1
       /\ \A i \in 1..Len(resp.posts), j \in 1..Len(resp.posts) :
             (i < j /\ ~RecentConnectionPost(resp.posts[i], resp.viewer))
             => /\ ~RecentConnectionPost(resp.posts[j], resp.viewer)
                /\ resp.posts[i].createdAt >= resp.posts[j].createdAt

\* C3: every post of a feed, discover or user-posts response is published when it
\* is read, and every tag of a trending-tags response is counted from published
\* posts only.
C3_PublishedOnly ==
    /\ resp.handler \in PostRoutes =>
          \A i \in 1..Len(resp.posts) :
              /\ resp.posts[i].isPublished
              /\ \E p \in PublishedPosts : p.id = resp.posts[i].id
    /\ resp.handler = "trendingTags" =>
          \A i \in 1..Len(resp.tags) :
              LET uses == UNION {{<<p.id, k>> : k \in {n \in 1..Len(p.tags) :
                                                   p.tags[n] = resp.tags[i].tag}}
                                 : p \in PublishedPosts}
              IN  /\ uses # {}
                  /\ resp.tags[i].totalPosts <= Cardinality(uses)

\* C3 witness: alice's feed shows a published post of bob while bob also has an
\* unpublished one.
C3_Witness ==
    /\ resp.handler = "feed"
    /\ resp.viewer = "alice"
    /\ \E i \in 1..Len(resp.posts) : resp.posts[i].author = "bob"
    /\ \E p \in posts : p.author = "bob" /\ ~p.isPublished

\* C4: for a valid page and page size and a deterministic mode, a discover response
\* over a non-empty set of published posts reports totalPosts, totalPages =
\* ceil(totalPosts / pageSize), hasNext = (page < totalPages), hasPrev = (page > 1),
\* and its posts are the slice [(page-1)*pageSize, page*pageSize) of the full
\* sequence of the mode.
C4_PaginationMath ==
    (/\ resp.handler \in {"discover", "discoverPublic"}
     /\ resp.rawPage >= 1
     /\ resp.rawLimit >= 1
     /\ resp.sortBy # "random"
     /\ PublishedPosts # {})
    => LET page  == resp.rawPage
           size  == resp.rawLimit
           total == Cardinality(PublishedPosts)
           rest  == total - (page - 1) * size
       IN  /\ resp.status = 200
           /\ Len(resp.pagination) = 1
           /\ resp.pagination[1].totalPosts = total
           /\ resp.pagination[1].totalPages * size >= total
           /\ (resp.pagination[1].totalPages - 1) * size < total
           /\ resp.pagination[1].hasNext = (page < resp.pagination[1].totalPages)
           /\ resp.pagination[1].hasPrev = (page > 1)
           /\ Len(resp.posts) = (IF rest < 0 THEN 0 ELSE IF rest < size THEN rest ELSE size)
           /\ \A i \in 1..Len(resp.posts) :
                 \E p \in PublishedPosts :
                     /\ p.id = resp.posts[i].id
                     /\ Rank(p, resp.viewer, resp.sortBy) = (page - 1) * size + i

\* C5: under popular mode, of two posts of a returned page the earlier one has more
\* likes, or as many likes and a creation time that is not earlier.
C5_PopularOrder ==
    (/\ resp.handler \in DiscoverRoutes
     /\ resp.sortBy = "popular")
    => \A i \in 1..Len(resp.posts), j \in 1..Len(resp.posts) :
          i < j =>
             \/ Len(resp.posts[i].likes) > Len(resp.posts[j].likes)
             \/ /\ Len(resp.posts[i].likes) = Len(resp.posts[j].likes)
                /\ resp.posts[i].createdAt >= resp.posts[j].createdAt

\* C6: when no post is published, the discover response is a success with posts =
\* [], totalPages = 0, totalPosts = 0, hasNext = false, hasPrev = false and a message,
\* whatever the mode and the page.
C6_EmptyStore ==
    (/\ resp.handler \in {"discover", "discoverPublic"}
     /\ PublishedPosts = {})
    => /\ resp.status = 200
       /\ resp.posts = <<>>
       /\ "message" \in resp.fields
       /\ Len(resp.pagination) = 1
       /\ resp.pagination[1].totalPages = 0
       /\ resp.pagination[1].totalPosts = 0
       /\ resp.pagination[1].hasNext = FALSE
       /\ resp.pagination[1].hasPrev = FALSE

\* C7: under trending or mixed mode the returned posts are in descending order of
\* max(0, 30 - daysSinceCreated) + 2 * (likeCount + 1.5 * commentCount), ties in
\* descending creation time; of two posts with equal engagement the newer one is
\* never after the older one.
C7_TrendingOrder ==
    (/\ resp.handler \in DiscoverRoutes
     /\ resp.sortBy \in {"trending", "mixed"})
    => \A i \in 1..Len(resp.posts), j \in 1..Len(resp.posts) :
          i < j =>
             \/ TrendingScore(resp.posts[i]) > TrendingScore(resp.posts[j])
             \/ /\ TrendingScore(resp.posts[i]) = TrendingScore(resp.posts[j])
                /\ resp.posts[i].createdAt >= resp.posts[j].createdAt

\* C8: under oldest mode the discover response is the full sequence of published
\* posts in ascending creation time, a recent post of a connection included at its
\* place in time.
C8_OldestAscending ==
    (/\ resp.handler \in {"discover", "discoverPublic"}
     /\ resp.sortBy = "oldest"
     /\ WholeFeedAsked)
    => /\ \A p \in PublishedPosts : Positions(p.id) # {}
       /\ \A i \in 1..Len(resp.posts), j \in 1..Len(resp.posts) :
             i < j => resp.posts[i].createdAt <= resp.posts[j].createdAt

\* C9: the connected set resolved for a viewer is the viewer and the other party of
\* every accepted Connection record the viewer is a party of, and nothing else; the
\* feed shows the published posts of exactly these authors; and a user is in the
\* viewer's connected set exactly when the viewer is in that user's.
C9_ConnectedSet ==
    (resp.handler = "feed" /\ resp.status = 200) =>
       /\ resp.connectedUserIds = ConnectedSet(resp.viewer)
       /\ {resp.posts[i].id : i \in 1..Len(resp.posts)}
             = {p.id : p \in {q \in PublishedPosts : q.author \in ConnectedSet(resp.viewer)}}
       /\ \A u \in Users :
             u \in resp.connectedUserIds <=> resp.viewer \in ConnectedUserIds(u)

\* C9 witness: alice sent the request bob accepted, carol's request to alice is
\* still pending, all three have published, and bob's feed shows alice's post.
C9_Witness ==
    /\ resp.handler = "feed"
    /\ resp.viewer = "bob"
    /\ \E c \in connections :
          c.requester = "alice" /\ c.recipient = "bob" /\ c.status = "accepted"
    /\ \E c \in connections :
          c.requester = "carol" /\ c.recipient = "alice" /\ c.status = "pending"
    /\ \A u \in Users : \E p \in posts : p.author = u
    /\ \E i \in 1..Len(resp.posts) : resp.posts[i].author = "alice"

\* C10: there is at most one Connection record per unordered pair of users,
\* whichever of them is the requester.
C10_OnePerPair ==
    \A c \in connections, d \in connections :
        {c.requester, c.recipient} = {d.requester, d.recipient} => c = d

\* C11: no Connection record has its requester as its recipient, and a request whose
\* target is the requesting user is answered with an error and leaves the Connection
\* collection as it was.
C11_NoSelfConnection ==
    /\ [](\A c \in connections : c.requester # c.recipient)
    /\ [][(resp'.handler = "request" /\ resp'.requester = resp'.recipient)
            => (resp'.status >= 400 /\ connections' = connections)]_vars

\* C11 witness: carol asked to connect to herself and was refused while another
\* request is on record.
C11_Witness ==
    /\ resp.handler = "request"
    /\ resp.requester = "carol"
    /\ resp.recipient = "carol"
    /\ resp.status = 400
    /\ connections # {}

\* C12: the status of a Connection starts at pending and changes at most once, to
\* accepted or to declined: in every step a new record is pending and a record that
\* is kept either keeps its status or leaves pending.
C12_LinearStatus ==
    [][\A d \in connections' :
          IF \E c \in connections : c.id = d.id
          THEN \A c \in connections :
                  c.id = d.id => (d.status = c.status \/ c.status = "pending")
          ELSE d.status = "pending"]_vars

\* C13: when a store operation of a feed or discover request throws, the request is
\* answered with an error and with no post.
C13_NoPartialFeed ==
    (resp.handler \in DiscoverRoutes \cup {"feed"} /\ resp.fault # NoFault)
    => (resp.status >= 500 /\ resp.posts = <<>>)

\* C14: an error response of a feed or discover request carries no stack trace and
\* no message or detail of the error that was thrown.
C14_NoInternalDetail ==
    (resp.handler \in DiscoverRoutes \cup {"feed"} /\ resp.status >= 500)
    => resp.fields \cap {"stack", "message", "details"} = {}

\* the ranking modes of the fixed enumeration
KnownModes == {"latest", "oldest", "popular", "trending", "mixed", "random"}

\* the ids of the posts of a sequence, in its order
IdsOf(ps) == [i \in 1..Len(ps) |-> ps[i].id]

\* the first pages a discover route can answer with when its default mode is asked
\* for by name, page size `limit`
DefaultPages(h, limit) ==
    IF h = "discoverAggregate"
    THEN {IdsOf(Slice(sorted, 0, limit)) : sorted \in AggregateSort("mixed", Published, limit)}
    ELSE {IdsOf(Slice(sorted, 0, limit)) : sorted \in ByCreatedDesc(Published)}

\* C15: a discover request whose ranking mode is outside the enumeration succeeds,
\* and its posts are in the order the default mode gives when asked for by name.
C15_UnknownModeFallsBack ==
    (/\ resp.handler \in {"discover", "discoverPublic", "discoverAggregate"}
     /\ resp.sortBy \notin KnownModes
     /\ resp.fault = NoFault
     /\ resp.rawPage \in {0, 1})
    => /\ resp.status = 200
       /\ IdsOf(resp.posts) \in DefaultPages(resp.handler, resp.limit)

\* C16: the page size a feed or discover request works with is at most 50, whatever
\* limit was asked for, and no response holds more than 50 posts.
C16_PageSizeCapped ==
    resp.handler \in DiscoverRoutes \cup {"feed"}
    => (resp.limit <= 50 /\ Len(resp.posts) <= 50)

\* C17: for a viewer without accepted connections the discover feed in latest mode is
\* all published posts in descending creation time, the viewer's own recent posts at
\* their place in time.
C17_NoConnectionsOneBucket ==
    (/\ resp.handler = "discover"
     /\ resp.sortBy = "latest"
     /\ AcceptedWith(resp.viewer) = {}
     /\ WholeFeedAsked)
    => /\ \A p \in PublishedPosts : Cardinality(Positions(p.id)) = 1
       /\ \A i \in 1..Len(resp.posts), j \in 1..Len(resp.posts) :
             i < j => resp.posts[i].createdAt >= resp.posts[j].createdAt

\* C18: a discover response shows every published post it was asked for with isLiked
\* true exactly when the viewer is in the post's like set, and with likesCount and
\* commentsCount the sizes of its like set and of its comment list.
C18_PostStats ==
    (/\ resp.handler \in {"discover", "discoverPublic"}
     /\ WholeFeedAsked)
    => \A p \in PublishedPosts :
          \E i \in Positions(p.id) :
              /\ resp.posts[i].isLiked = (\E k \in 1..Len(p.likes) : p.likes[k] = resp.viewer)
              /\ resp.posts[i].likesCount = Len(p.likes)
              /\ resp.posts[i].commentsCount = Len(p.comments)

\* the published posts whose tag list holds the tag t, each post once
PostsTagged(t) == {p \in PublishedPosts : \E i \in 1..Len(p.tags) : p.tags[i] = t}

\* C19: trendingTags reports for each tag the number of published posts that hold
\* the tag, a post counted once also when its list repeats the tag, and the number
\* of those created within the last seven days.
C19_TagCounts ==
    resp.handler = "trendingTags" =>
       \A i \in 1..Len(resp.tags) :
          /\ resp.tags[i].totalPosts = Cardinality(PostsTagged(resp.tags[i].tag))
          /\ resp.tags[i].recentPosts =
                Cardinality({p \in PostsTagged(resp.tags[i].tag) :
                                p.createdAt >= now - 7 * DayTicks})

\* C20: the trendingTags result is in descending order of recent count, then of
\* total count, has at most `limit` entries (10 when none is given) and holds each
\* tag once.
C20_TagOrder ==
    resp.handler = "trendingTags" =>
       /\ Len(resp.tags) <= (IF resp.rawLimit = 0 THEN 10 ELSE resp.rawLimit)
       /\ \A i \in 1..Len(resp.tags), j \in 1..Len(resp.tags) :
             i < j =>
                /\ resp.tags[i].tag # resp.tags[j].tag
                /\ \/ resp.tags[i].recentPosts > resp.tags[j].recentPosts
                   \/ /\ resp.tags[i].recentPosts = resp.tags[j].recentPosts
                      /\ resp.tags[i].totalPosts >= resp.tags[j].totalPosts

\* C20 witness: two tags come back, the first with fewer posts than the second but
\* more of them recent.
C20_Witness ==
    /\ resp.handler = "trendingTags"
    /\ Len(resp.tags) = 2
    /\ resp.tags[1].totalPosts < resp.tags[2].totalPosts
    /\ resp.tags[1].recentPosts > resp.tags[2].recentPosts

\* the users who like the post p
Likers(p) == {p.likes[i] : i \in 1..Len(p.likes)}

\* C21: in the like list of a post every user occurs at most once, and the likesCount
\* a like call answers with is the number of distinct users who like the post.
C21_LikeSet ==
    /\ \A p \in posts : Len(p.likes) = Cardinality(Likers(p))
    /\ (resp.handler = "like" /\ resp.status = 200) =>
          \A p \in posts : p.id = resp.post => resp.likesCount = Cardinality(Likers(p))

\* C22: in random mode the sample holds at least pageSize posts whenever that many
\* posts are published, the page is the slice [(page-1)*pageSize, page*pageSize) of
\* the sample, every post of the page is published and no post is twice in a page.
C22_RandomPage ==
    (resp.handler = "discoverAggregate" /\ resp.sortBy = "random") =>
       LET page == IF resp.rawPage = 0 THEN 1 ELSE resp.rawPage
           size == IF resp.rawLimit = 0 THEN 10 ELSE resp.rawLimit
           from == (page - 1) * size
           left == Len(resp.sample) - from
       IN  /\ resp.status = 200
           /\ Cardinality(PublishedPosts) >= size => Len(resp.sample) >= size
           /\ \A i \in 1..Len(resp.sample) : resp.sample[i] \in PublishedPosts
           /\ Len(resp.posts) = (IF left < 0 THEN 0 ELSE IF left < size THEN left ELSE size)
           /\ \A i \in 1..Len(resp.posts) :
                 /\ resp.posts[i] = resp.sample[from + i]
                 /\ resp.posts[i] \in PublishedPosts
           /\ \A i \in 1..Len(resp.posts), j \in 1..Len(resp.posts) :
                 resp.posts[i].id = resp.posts[j].id => i = j

\* C22 witness: three posts are published and one page of two is asked for; it comes
\* back with two different posts.
C22_Witness ==
    /\ resp.handler = "discoverAggregate"
    /\ resp.sortBy = "random"
    /\ resp.rawLimit = 2
    /\ Cardinality(PublishedPosts) = 3
    /\ Len(resp.posts) = 2
    /\ resp.posts[1].id # resp.posts[2].id

\* the routes that only read
ReadRoutes == DiscoverRoutes \cup {"feed", "trendingTags"}

\* the published posts a feed of the viewer v shows, by the records of the store
FeedOf(v) == {p \in PublishedPosts : p.author \in ConnectedSet(v)}

\* C23: a step of a feed, discover or trending-tags request leaves every Post,
\* Connection and User record as it was, and a feed request that runs while other feed
\* requests are suspended answers what it answers alone: the page of the viewer's
\* own connected set.
C23_ReadOnlyIndependent ==
    /\ [][(reading' # reading \/ resp'.handler \in ReadRoutes)
            => (posts' = posts /\ connections' = connections
                  /\ refreshTokens' = refreshTokens)]_vars
    /\ []((resp.handler = "feed" /\ resp.fault = NoFault) =>
            LET page == IF resp.rawPage = 0 THEN 1 ELSE resp.rawPage
                size == IF resp.rawLimit = 0 THEN 10 ELSE resp.rawLimit
            IN  /\ resp.status = 200
                /\ resp.connectedUserIds = ConnectedSet(resp.viewer)
                /\ resp.pagination[1].totalPosts = Cardinality(FeedOf(resp.viewer))
                /\ \A i \in 1..Len(resp.posts) :
                      /\ resp.posts[i] \in FeedOf(resp.viewer)
                      /\ Cardinality({q \in FeedOf(resp.viewer) :
                                         q.createdAt > resp.posts[i].createdAt})
                            = (page - 1) * size + i - 1
                /\ Len(resp.posts) = Min(size,
                      IF Cardinality(FeedOf(resp.viewer)) > (page - 1) * size
                      THEN Cardinality(FeedOf(resp.viewer)) - (page - 1) * size ELSE 0))

\* C23 witness: alice's feed answers with a post of bob while a feed call of carol,
\* who is not connected to bob, is suspended.
C23_Witness ==
    /\ resp.handler = "feed"
    /\ resp.viewer = "alice"
    /\ resp.status = 200
    /\ \E i \in 1..Len(resp.posts) : resp.posts[i].author = "bob"
    /\ \E c \in reading : c.viewer = "carol"

\* the token t is in the stored refreshTokens of the user u
Holds(tokens, u, t) == u \in Users /\ \E i \in 1..Len(tokens[u]) : tokens[u][i] = t

\* C24: a refresh request that succeeds with the token T leaves T out of the user's
\* refreshTokens and its new token in them, and a refresh request that is answered
\* when T is not in the user's refreshTokens, one that ran beside the successful one
\* included, is answered 401.
C24_RedeemOnce ==
    [][resp'.handler = "refresh" =>
          /\ resp'.status = 200 =>
                /\ ~Holds(refreshTokens', resp'.user, resp'.token)
                /\ Holds(refreshTokens', resp'.user, resp'.refreshToken[1])
          /\ ~Holds(refreshTokens, resp'.user, resp'.token) => resp'.status = 401]_vars

\* C25: a discover request of a viewer with valid parameters, none of whose store
\* operations throws, is answered 200 with a page of posts.
C25_DiscoverAnswers ==
    (resp.handler = "discover" /\ resp.fault = NoFault)
    => /\ resp.status = 200
       /\ "posts" \in resp.fields

\* C26: an accept or decline call succeeds only when its caller is the recipient of
\* the record and the record is pending; on a missing record it is answered 404, to
\* a caller who is not the recipient 403, on a record that is not pending 400, and
\* these three leave the Connection records as they were.
C26_AnswerErrors ==
    [][resp'.handler \in {"accept", "decline"} =>
          LET found == {c \in connections : c.id = resp'.id} IN
          /\ found = {} => resp'.status = 404
          /\ \A c \in found :
                /\ c.recipient # resp'.user => resp'.status = 403
                /\ (c.recipient = resp'.user /\ c.status # "pending") => resp'.status = 400
          /\ resp'.status = 200 =>
                \E c \in found : c.recipient = resp'.user /\ c.status = "pending"
          /\ resp'.status \in {400, 403, 404} => connections' = connections]_vars

\* C27: the posts of a discover response have pairwise different ids, and when the
\* whole sequence is asked for every published post is in it exactly once.
C27_EachPostOnce ==
    (resp.handler = "discover" /\ resp.fault = NoFault) =>
       /\ \A i \in 1..Len(resp.posts), j \in 1..Len(resp.posts) :
             resp.posts[i].id = resp.posts[j].id => i = j
       /\ WholeFeedAsked => \A p \in PublishedPosts : Cardinality(Positions(p.id)) = 1

\* what a logout that names the token t, or none (NoToken), leaves of the tokens
AfterLogout(tokens, t) ==
    IF t = NoToken THEN <<>> ELSE SelectSeq(tokens, LAMBDA x : x # t)

C30_PairGuard ==
    [][/\ (resp'.handler = "request" /\ resp'.requester # resp'.recipient) =>
            IF Between(resp'.requester, resp'.recipient) # {}
            THEN resp'.status = 409 /\ connections' = connections
            ELSE /\ resp'.status = 201
                 /\ \E c \in connections' \ connections :
                       /\ c.requester = resp'.requester
                       /\ c.recipient = resp'.recipient
                       /\ c.status = "pending"
                       /\ connections' = connections \cup {c}
       /\ resp'.handler = "removeConnection" =>
            \A c \in connections : c.id = resp'.id =>
                IF resp'.user \in {c.requester, c.recipient}
                THEN /\ resp'.status = 200
                     /\ connections' = connections \ {c}
                     /\ \A d \in connections' :
                           {d.requester, d.recipient} # {c.requester, c.recipient}
                ELSE resp'.status = 403 /\ connections' = connections]_vars

=============================================================================
